---- MODULE Spec2Model ----
(***************************************************************************)
(* Model of src/src/controller-binding.c: the binding entry point          *)
(* (afbBindingEntry), the API pre-init callback (CtrlLoadOneApi), the      *)
(* deferred init hook (CtrlInitOneApi) and the two built-in verbs          *)
(* (ctrlapi_ping, ctrlapi_auth).                                           *)
(*                                                                         *)
(* C strings are sequences of one-character strings; a C pointer to a      *)
(* string is a record [null, s].  The host binder (the afb_api calls), the  *)
(* controller library (CtlConfigSearch, CtlLoadMetaData, CtlLoadSections,  *)
(* CtlConfigExec) and the section loaders are outside the source file;     *)
(* they are modelled by their contract, their outcomes being chosen        *)
(* nondeterministically by the actions.                                    *)
(***************************************************************************)
EXTENDS Integers, Sequences, FiniteSets, TLC

VARIABLES
    env,        \* envDirList: the <PREFIX>_CONFIG_PATH override of the process
    fs,         \* the file system: directory -> configuration document it holds
    image,      \* per module load: the image of the module the load runs in
    settings,   \* per module load: the "binding-path" setting of the root api
    rootDir,    \* per module load: GetBindingDirPath(root_api)
    pc,         \* per module load: "off" | "ready" | "returned" | "crashed"
    entry,      \* per module load: what afbBindingEntry did and returned
    pre,        \* per module load: what CtrlLoadOneApi did and returned
    api,        \* per module load: the API object the host keeps
    init,       \* per module load: the runs of the init hook
    count,      \* per image: ctrlapi_ping's static counter
    run,        \* per module load: the verb request being served
    reqs,       \* per module load: the verb requests served, oldest first
    events      \* per module load: events the host delivered to the event hook

vars == <<env, fs, image, settings, rootDir, pc, entry, pre, api, init, count,
          run, reqs, events>>

----------------------------------------------------------------------------
(* Bounds of the model.                                                    *)

\* longest binding-path drawn by InitPath
MaxPathLen == 4
\* most top-level sections a configuration document carries
MaxSections == 3
\* most callbacks (init hook, event hook, verb handlers) the host makes
MaxCalls == 2

\* the module loads (calls of afbBindingEntry) of the process
Loads == {1, 2}

----------------------------------------------------------------------------
(* C strings and pointers.                                                 *)

Null == [null |-> TRUE, s |-> <<>>]
Ptr(str) == [null |-> FALSE, s |-> str]

RECURSIVE Strings(_, _)
\* all strings over the characters cs of length at most n
Strings(cs, n) ==
    IF n = 0 THEN {<<>>}
    ELSE LET shorter == Strings(cs, n - 1)
         IN  shorter \cup {<<c>> \o t : c \in cs, t \in {u \in shorter : Len(u) = n - 1}}

Min(a, b) == IF a < b THEN a ELSE b

\* rindex(s, c): the position of the last c in s, 0 (a null pointer) when none
rindex(s, c) ==
    LET hits == {k \in 1..Len(s) : s[k] = c}
    IN  IF hits = {} THEN 0 ELSE CHOOSE k \in hits : \A j \in hits : j <= k

\* strlen of the string that starts at position k of s
strlenAt(s, k) == Len(s) - k + 1

\* snprintf(buf, size, fmt, ...): the expansion, cut to size - 1 characters
snprintf(size, expansion) == SubSeq(expansion, 1, Min(Len(expansion), size - 1))

RECURSIVE Split(_, _)
\* the fields of s between the separators c (an empty s is one empty field)
Split(s, c) ==
    LET hits == {k \in 1..Len(s) : s[k] = c}
    IN  IF hits = {} THEN <<s>>
        ELSE LET k == CHOOSE h \in hits : \A j \in hits : h <= j
             IN  <<SubSeq(s, 1, k - 1)>> \o Split(SubSeq(s, k + 1, Len(s)), c)

RECURSIVE SumSeq(_)
SumSeq(q) == IF q = <<>> THEN 0 ELSE Head(q) + SumSeq(Tail(q))

----------------------------------------------------------------------------
(* Program constants.                                                      *)

\* the failure code ERROR, a macro of the controller library's headers
\* (#define ERROR -1); this file only uses it
ERROR == -1

\* the compiled-in fallback directory
CONTROL_CONFIG_PATH == <<"/", "c">>

\* the section table, in its order; the NULL key ends it
ctrlSectionsBug == <<"controls", "plugins", "events", "onload", "">>
ctrlSectionsFoo == <<"plugins", "controls", "events", "onload", "foo", "">>
ctrlSections == <<"plugins", "controls", "events", "onload", "">>

\* the built-in verbs, in their order; the NULL verb ends it
CtrlApiVerbs == <<"ping-global", "auth", "">>

\* a call the program makes to the host or to the controller library
Call(op, arg, rc) == [op |-> op, arg |-> arg, rc |-> rc]

----------------------------------------------------------------------------
(* Configuration documents.  A document is the parsed file: whether it     *)
(* parses, its api name ("" when the metadata carries none) and the keys   *)
(* of its top-level sections in document order.  A CtlConfigT pointer is   *)
(* the document with a null flag.                                          *)

Doc(ok, name, keys) == [null |-> FALSE, ok |-> ok, api |-> name, keys |-> keys]
NoConfig == [null |-> TRUE, ok |-> FALSE, api |-> "", keys |-> <<>>]

SeqToSet(q) == {q[k] : k \in 1..Len(q)}

\* json_object_object_get_ex(cfg->configJ, key, ..): is the key in the document
HasKey(cfg, key) == key \in SeqToSet(cfg.keys)

----------------------------------------------------------------------------
(* The host's API object and the calls the program makes on it.  calls is  *)
(* the history of the calls received, oldest first; late counts the        *)
(* registrations received after the seal.                                  *)

NewHandle ==
    [null |-> FALSE, userdata |-> NoConfig, verbs |-> <<>>, onEvent |-> 0,
     onInit |-> 0, sealed |-> FALSE, late |-> 0, calls |-> <<>>]
NoHandle == [NewHandle EXCEPT !.null = TRUE]

afb_api_set_userdata(h, cfg) ==
    [h EXCEPT !.userdata = cfg, !.calls = Append(@, Call("set_userdata", "", 0))]

\* the host's answer: rc when the API is open, -1 when it is sealed
afb_api_add_verb(h, verb, rc) ==
    LET got == IF h.sealed THEN -1 ELSE rc
    IN  [h |-> [h EXCEPT !.verbs = IF got = 0 THEN Append(@, verb) ELSE @,
                         !.late = IF h.sealed THEN @ + 1 ELSE @,
                         !.calls = Append(@, Call("add_verb", verb, got))],
         rc |-> got]

afb_api_on_event(h) ==
    [h EXCEPT !.onEvent = IF h.sealed THEN @ ELSE @ + 1,
              !.late = IF h.sealed THEN @ + 1 ELSE @,
              !.calls = Append(@, Call("on_event", "", 0))]

afb_api_on_init(h) ==
    [h EXCEPT !.onInit = IF h.sealed THEN @ ELSE @ + 1,
              !.late = IF h.sealed THEN @ + 1 ELSE @,
              !.calls = Append(@, Call("on_init", "", 0))]

afb_api_seal(h) ==
    [h EXCEPT !.sealed = TRUE, !.calls = Append(@, Call("seal", "", 0))]

\* what afb_api_add_verb may answer on an open API
AddVerbRcs == {0, -1}

\* what a section loader may answer: 0, or its count of errors (2, so that
\* a sum of answers differs from a count of the loaders that failed)
LoaderRcs == {0, 2}

----------------------------------------------------------------------------
(* The controller library's section dispatch.                              *)

\* sections[idx].loadCB(api, &sections[idx], sectionJ): the loader runs and
\* answers rc
loadCB(h, key, rc) == [h EXCEPT !.calls = Append(@, Call("load", key, rc))]

RECURSIVE LoadSectionsFrom(_, _, _, _, _, _)
LoadSectionsFrom(h, cfg, sections, rcs, idx, err) ==
    IF sections[idx] = "" THEN [h |-> h, err |-> err]
    ELSE IF HasKey(cfg, sections[idx])
    THEN LoadSectionsFrom(loadCB(h, sections[idx], rcs[sections[idx]]), cfg,
                          sections, rcs, idx + 1, err + rcs[sections[idx]])
    ELSE LoadSectionsFrom(h, cfg, sections, rcs, idx + 1, err)

\* CtlLoadSections(api, ctrlConfig, sections): the table is walked in its
\* order, the loader of each key the document carries is called, and the sum
\* of the loaders' answers is returned
CtlLoadSections(h, cfg, sections, rcs) ==
    LoadSectionsFrom(h, cfg, sections, rcs, 1, 0)

----------------------------------------------------------------------------
(* CtrlLoadStaticVerbs and CtrlLoadOneApi.                                 *)

RECURSIVE StaticVerbsFrom(_, _, _, _, _)
StaticVerbsFrom(h, verbs, rcs, idx, errcount) ==
    IF verbs[idx] = "" THEN [h |-> h, err |-> errcount]
    ELSE LET r == afb_api_add_verb(h, CtrlApiVerbs[idx], rcs[idx])
         IN  StaticVerbsFrom(r.h, verbs, rcs, idx + 1, errcount + r.rc)

\* rcs[idx]: the host's answer to the idx-th registration
CtrlLoadStaticVerbs(h, verbs, rcs) == StaticVerbsFrom(h, verbs, rcs, 1, 0)

\* lines 132-135: what is returned when the static verbs failed
StaticVerbsFailedSum(h, err) == [h |-> h, ret |-> err]
StaticVerbsFailed(h, err) == [h |-> h, ret |-> ERROR]

\* lines 140-147: the hooks, the seal and the return of the loaders' sum
FinishLoadSealFirst(h, err) ==
    [h |-> afb_api_on_init(afb_api_on_event(afb_api_seal(h))), ret |-> err]
FinishLoadSealOnSuccess(h, err) ==
    LET hooked == afb_api_on_init(afb_api_on_event(h))
    IN  [h |-> IF err = 0 THEN afb_api_seal(hooked) ELSE hooked, ret |-> err]
FinishLoadNoSeal(h, err) ==
    [h |-> afb_api_on_init(afb_api_on_event(h)), ret |-> err]
FinishLoadHooksOnSuccess(h, err) ==
    [h |-> IF err = 0 THEN afb_api_seal(afb_api_on_init(afb_api_on_event(h)))
           ELSE afb_api_seal(h),
     ret |-> err]
FinishLoad(h, err) ==
    [h |-> afb_api_seal(afb_api_on_init(afb_api_on_event(h))), ret |-> err]

\* the pre-init callback; verbRcs and loadRcs are the answers the host and
\* the section loaders give when called
CtrlLoadOneApiSectionsFirst(cbdata, h, verbRcs, loadRcs) ==
    LET h1 == afb_api_set_userdata(h, cbdata)
        ls == CtlLoadSections(h1, cbdata, ctrlSections, loadRcs)
        sv == CtrlLoadStaticVerbs(ls.h, CtrlApiVerbs, verbRcs)
    IN  IF sv.err # 0 THEN StaticVerbsFailed(sv.h, sv.err)
        ELSE FinishLoad(sv.h, ls.err)
CtrlLoadOneApi(cbdata, h, verbRcs, loadRcs) ==
    LET h1 == afb_api_set_userdata(h, cbdata)
        sv == CtrlLoadStaticVerbs(h1, CtrlApiVerbs, verbRcs)
    IN  IF sv.err # 0 THEN StaticVerbsFailed(sv.h, sv.err)
        ELSE LET ls == CtlLoadSections(sv.h, cbdata, ctrlSections, loadRcs)
             IN  FinishLoad(ls.h, ls.err)

----------------------------------------------------------------------------
(* afbBindingEntry: the search path.                                       *)

\* lines 170-182: ctlapp_RootDir from the "binding-path" setting.  kind is
\* "ok", "error" (return ERROR) or "undefined" (rindex found no '/', and
\* strlen reads through the null pointer)
AppRootDirNoCheck(bpath) ==
    LET k == rindex(bpath.s, "/")
    IN  IF bpath.null THEN [kind |-> "ok", dir |-> <<>>]
        ELSE IF k = 0 THEN [kind |-> "undefined", dir |-> <<>>]
        ELSE IF strlenAt(bpath.s, k) < 2 THEN [kind |-> "error", dir |-> <<>>]
        ELSE [kind |-> "ok", dir |-> SubSeq(bpath.s, 1, k) \o <<".", ".">>]
AppRootDir(bpath) ==
    LET k == rindex(bpath.s, "/")
    IN  IF bpath.null THEN [kind |-> "ok", dir |-> <<>>]
        ELSE IF k = 0 THEN [kind |-> "undefined", dir |-> <<>>]
        ELSE IF strlenAt(bpath.s, k) < 3 THEN [kind |-> "error", dir |-> <<>>]
        ELSE [kind |-> "ok", dir |-> SubSeq(bpath.s, 1, k) \o <<".", ".">>]

\* lines 193-202: len and the composed dirList
ComposeDirListSwapped(envDirList, ctlapp_RootDir, bindingRootDir) ==
    IF ~envDirList.null
    THEN LET len == Len(CONTROL_CONFIG_PATH) + Len(envDirList.s)
                    + Len(ctlapp_RootDir) + Len(bindingRootDir) + 3
         IN  [len |-> len,
              dirList |-> snprintf(len + 1,
                  envDirList.s \o <<":">> \o bindingRootDir \o <<":">>
                  \o ctlapp_RootDir \o <<":">> \o CONTROL_CONFIG_PATH)]
    ELSE LET len == Len(CONTROL_CONFIG_PATH) + Len(ctlapp_RootDir)
                    + Len(bindingRootDir) + 2
         IN  [len |-> len,
              dirList |-> snprintf(len + 1,
                  bindingRootDir \o <<":">> \o ctlapp_RootDir \o <<":">>
                  \o CONTROL_CONFIG_PATH)]
ComposeDirListShort(envDirList, ctlapp_RootDir, bindingRootDir) ==
    IF ~envDirList.null
    THEN LET len == Len(CONTROL_CONFIG_PATH) + Len(envDirList.s)
                    + Len(ctlapp_RootDir) + Len(bindingRootDir) + 2
         IN  [len |-> len,
              dirList |-> snprintf(len + 1,
                  envDirList.s \o <<":">> \o ctlapp_RootDir \o <<":">>
                  \o bindingRootDir \o <<":">> \o CONTROL_CONFIG_PATH)]
    ELSE LET len == Len(CONTROL_CONFIG_PATH) + Len(ctlapp_RootDir)
                    + Len(bindingRootDir) + 2
         IN  [len |-> len,
              dirList |-> snprintf(len + 1,
                  bindingRootDir \o <<":">> \o ctlapp_RootDir \o <<":">>
                  \o CONTROL_CONFIG_PATH)]
ComposeDirList(envDirList, ctlapp_RootDir, bindingRootDir) ==
    IF ~envDirList.null
    THEN LET len == Len(CONTROL_CONFIG_PATH) + Len(envDirList.s)
                    + Len(ctlapp_RootDir) + Len(bindingRootDir) + 3
         IN  [len |-> len,
              dirList |-> snprintf(len + 1,
                  envDirList.s \o <<":">> \o ctlapp_RootDir \o <<":">>
                  \o bindingRootDir \o <<":">> \o CONTROL_CONFIG_PATH)]
    ELSE LET len == Len(CONTROL_CONFIG_PATH) + Len(ctlapp_RootDir)
                    + Len(bindingRootDir) + 2
         IN  [len |-> len,
              dirList |-> snprintf(len + 1,
                  bindingRootDir \o <<":">> \o ctlapp_RootDir \o <<":">>
                  \o CONTROL_CONFIG_PATH)]

----------------------------------------------------------------------------
(* The controller library's search and load.                               *)

\* CtlConfigSearch(root_api, dirList, ""): the directories of dirList are
\* scanned in order; the first that holds a matching file gives the path
CtlConfigSearch(dirList, files) ==
    LET dirs == Split(dirList, ":")
        hits == {k \in 1..Len(dirs) : dirs[k] \in DOMAIN files}
    IN  IF hits = {} THEN Null
        ELSE Ptr(dirs[CHOOSE k \in hits : \A j \in hits : k <= j])

\* CtlLoadMetaData(root_api, configPath): the parsed document, NULL when the
\* file does not parse
CtlLoadMetaData(configPath, files) ==
    IF files[configPath.s].ok THEN files[configPath.s] ELSE NoConfig

----------------------------------------------------------------------------
(* The host's afb_api_new_api.                                             *)

NoPre == [ran |-> FALSE, ret |-> 0, h |-> NoHandle]

\* afb_api_new_api(root_api, name, info, 1, preinit, closure): unless the
\* host refuses the name, it makes the API object and calls the pre-init
\* callback on it.  It keeps the API when pre-init returns 0 and drops it
\* when pre-init returns a negative value; when pre-init returns a positive
\* count of errors the host decides (keep).  A null handle is the failure.
afb_api_new_api(cfg, o) ==
    IF o.refuse THEN [handle |-> NoHandle, pre |-> NoPre]
    ELSE LET r == CtrlLoadOneApi(cfg, NewHandle, o.verbRcs, o.loadRcs)
         IN  [handle |-> IF r.ret = 0 \/ (r.ret > 0 /\ o.keep) THEN r.h
                         ELSE NoHandle,
              pre |-> [ran |-> TRUE, ret |-> r.ret, h |-> r.h]]

----------------------------------------------------------------------------
(* afbBindingEntry.                                                        *)

\* what a run of afbBindingEntry leaves: how it ended ("return" | "crash"),
\* the value returned, the search path and its length, the file found, the
\* document loaded, and the calls made, oldest first
EntryRec(out, ret, len, dirList, configPath, cfg, calls) ==
    [out |-> out, ret |-> ret, len |-> len, dirList |-> dirList,
     configPath |-> configPath, cfg |-> cfg, calls |-> calls]
NoEntry == EntryRec("none", 0, 0, Null, Null, NoConfig, <<>>)

Result(e, a, p) == [entry |-> e, api |-> a, pre |-> p]

\* lines 235-244: the API creation and the return
CreateApiInverted(c, found, cfg, calls, o) ==
    LET made == afb_api_new_api(cfg, o)
        now == calls \o <<Call("new_api", cfg.api, 0)>>
    IN  IF ~made.handle.null
        THEN Result(EntryRec("return", ERROR, c.len, Ptr(c.dirList), found, cfg,
                             now \o <<Call("log", "creation", 0), Call("free", "", 0)>>),
                    made.handle, made.pre)
        ELSE Result(EntryRec("return", 0, c.len, Ptr(c.dirList), found, cfg,
                             now \o <<Call("free", "", 0)>>),
                    made.handle, made.pre)
CreateApiLeak(c, found, cfg, calls, o) ==
    LET made == afb_api_new_api(cfg, o)
        now == calls \o <<Call("new_api", cfg.api, 0)>>
    IN  IF made.handle.null
        THEN Result(EntryRec("return", ERROR, c.len, Ptr(c.dirList), found, cfg,
                             now \o <<Call("log", "creation", 0)>>),
                    made.handle, made.pre)
        ELSE Result(EntryRec("return", 0, c.len, Ptr(c.dirList), found, cfg,
                             now \o <<Call("free", "", 0)>>),
                    made.handle, made.pre)
CreateApi(c, found, cfg, calls, o) ==
    LET made == afb_api_new_api(cfg, o)
        now == calls \o <<Call("new_api", cfg.api, 0)>>
    IN  IF made.handle.null
        THEN Result(EntryRec("return", ERROR, c.len, Ptr(c.dirList), found, cfg,
                             now \o <<Call("log", "creation", 0), Call("free", "", 0)>>),
                    made.handle, made.pre)
        ELSE Result(EntryRec("return", 0, c.len, Ptr(c.dirList), found, cfg,
                             now \o <<Call("free", "", 0)>>),
                    made.handle, made.pre)

\* lines 209-233: the search, the load and the api name
LocateAndLoadNoApiCheck(c, files, o) ==
    LET found == CtlConfigSearch(c.dirList, files)
        cfg == IF found.null THEN NoConfig ELSE CtlLoadMetaData(found, files)
        searched == <<Call("malloc", "", 0), Call("search", "dirList", 0)>>
        loaded == searched \o <<Call("load_meta", "", 0)>>
    IN  IF found.null
        THEN Result(EntryRec("return", ERROR, c.len, Ptr(c.dirList), found, cfg,
                             searched \o <<Call("log", "dirList", 0), Call("free", "", 0)>>),
                    NoHandle, NoPre)
        ELSE IF cfg.null
        THEN Result(EntryRec("return", ERROR, c.len, Ptr(c.dirList), found, cfg,
                             loaded \o <<Call("log", "configPath", 0), Call("free", "", 0)>>),
                    NoHandle, NoPre)
        ELSE CreateApi(c, found, cfg, loaded, o)
LocateAndLoadLogsFile(c, files, o) ==
    LET found == CtlConfigSearch(c.dirList, files)
        cfg == IF found.null THEN NoConfig ELSE CtlLoadMetaData(found, files)
        searched == <<Call("malloc", "", 0), Call("search", "dirList", 0)>>
        loaded == searched \o <<Call("load_meta", "", 0)>>
    IN  IF found.null
        THEN Result(EntryRec("return", ERROR, c.len, Ptr(c.dirList), found, cfg,
                             searched \o <<Call("log", "configPath", 0), Call("free", "", 0)>>),
                    NoHandle, NoPre)
        ELSE IF cfg.null
        THEN Result(EntryRec("return", ERROR, c.len, Ptr(c.dirList), found, cfg,
                             loaded \o <<Call("log", "configPath", 0), Call("free", "", 0)>>),
                    NoHandle, NoPre)
        ELSE IF cfg.api = ""
        THEN Result(EntryRec("return", ERROR, c.len, Ptr(c.dirList), found, cfg,
                             loaded \o <<Call("log", "configPath", 0), Call("free", "", 0)>>),
                    NoHandle, NoPre)
        ELSE CreateApi(c, found, cfg, loaded, o)
LocateAndLoad(c, files, o) ==
    LET found == CtlConfigSearch(c.dirList, files)
        cfg == IF found.null THEN NoConfig ELSE CtlLoadMetaData(found, files)
        searched == <<Call("malloc", "", 0), Call("search", "dirList", 0)>>
        loaded == searched \o <<Call("load_meta", "", 0)>>
    IN  IF found.null
        THEN Result(EntryRec("return", ERROR, c.len, Ptr(c.dirList), found, cfg,
                             searched \o <<Call("log", "dirList", 0), Call("free", "", 0)>>),
                    NoHandle, NoPre)
        ELSE IF cfg.null
        THEN Result(EntryRec("return", ERROR, c.len, Ptr(c.dirList), found, cfg,
                             loaded \o <<Call("log", "configPath", 0), Call("free", "", 0)>>),
                    NoHandle, NoPre)
        ELSE IF cfg.api = ""
        THEN Result(EntryRec("return", ERROR, c.len, Ptr(c.dirList), found, cfg,
                             loaded \o <<Call("log", "configPath", 0), Call("free", "", 0)>>),
                    NoHandle, NoPre)
        ELSE CreateApi(c, found, cfg, loaded, o)

\* what reading through the null pointer of line 173 may do: the process
\* dies, or the read yields a short length and the entry returns ERROR
UndefinedOutcomes == {"crash", "return"}

\* the whole entry point; o carries the answers of the host and the loaders
afbBindingEntry(bpath, envDirList, bindingRootDir, files, o) ==
    LET root == AppRootDir(bpath)
    IN  IF root.kind = "undefined"
        THEN Result(EntryRec(o.undefined, ERROR, 0, Null, Null, NoConfig, <<>>),
                    NoHandle, NoPre)
        ELSE IF root.kind = "error"
        THEN Result(EntryRec("return", ERROR, 0, Null, Null, NoConfig, <<>>),
                    NoHandle, NoPre)
        ELSE LocateAndLoad(ComposeDirList(envDirList, root.dir, bindingRootDir),
                           files, o)

----------------------------------------------------------------------------
(* The init hook and the built-in verbs.                                   *)

\* CtrlInitOneApi(api); execRc is what CtlConfigExec answers.  doc is the
\* document CtlConfigExec ran with (null when it did not run)
CtrlInitOneApiCaptured(h, execRc) ==
    IF h.null THEN [ret |-> -1, doc |-> NoConfig]
    ELSE IF h.userdata.null THEN [ret |-> -2, doc |-> NoConfig]
    ELSE [ret |-> execRc,
          doc |-> IF pre[2].ran THEN entry[2].cfg ELSE entry[1].cfg]
CtrlInitOneApiOnce(h, execRc) ==
    IF h.null THEN [ret |-> -1, doc |-> NoConfig]
    ELSE IF h.userdata.null THEN [ret |-> -2, doc |-> NoConfig]
    ELSE IF \E i \in Loads : init[i].runs > 0 THEN [ret |-> 0, doc |-> NoConfig]
    ELSE [ret |-> execRc, doc |-> h.userdata]
CtrlInitOneApiIgnoresResult(h, execRc) ==
    IF h.null THEN [ret |-> -1, doc |-> NoConfig]
    ELSE IF h.userdata.null THEN [ret |-> -2, doc |-> NoConfig]
    ELSE [ret |-> 0, doc |-> h.userdata]
CtrlInitOneApi(h, execRc) ==
    IF h.null THEN [ret |-> -1, doc |-> NoConfig]
    ELSE IF h.userdata.null THEN [ret |-> -2, doc |-> NoConfig]
    ELSE [ret |-> execRc, doc |-> h.userdata]

\* what CtlConfigExec may answer
ExecRcs == {0, ERROR}

\* ctrlapi_ping, the increment done: the calls made on the request, seen
\* being the counter as read for the notice and cnt as read for the reply
ctrlapi_pingTwice(seen, cnt) ==
    <<Call("notice", "", seen), Call("success", "", cnt), Call("success", "", cnt)>>
ctrlapi_ping(seen, cnt) == <<Call("notice", "", seen), Call("success", "", cnt)>>

\* ctrlapi_auth: the calls made on the request
ctrlapi_auth == <<Call("set_loa", "", 1), Call("success", "", 0)>>

IsReply(c) == c.op \in {"success", "fail"}
Replies(calls) == Cardinality({k \in 1..Len(calls) : IsReply(calls[k])})

----------------------------------------------------------------------------
(* The inputs.                                                             *)

DirE == <<"/", "e">>
DirR == <<"/", "r">>

\* the keys a document may carry: the table's and one it does not know
DocKeys == {"plugins", "controls", "events", "onload", "foo"}

RECURSIVE KeySeqs(_)
\* the sequences of distinct keys of length at most n (a JSON object holds a
\* key once)
KeySeqs(n) ==
    IF n = 0 THEN {<<>>}
    ELSE LET shorter == KeySeqs(n - 1)
             longest == {u \in shorter : Len(u) = n - 1}
         IN  shorter \cup UNION {{Append(q, k) : k \in DocKeys \ SeqToSet(q)} : q \in longest}

\* the documents a file may hold
Docs(n) ==
    {Doc(FALSE, "", <<>>)}
    \cup {Doc(TRUE, name, keys) : name \in {"", "demo"},
                                  keys \in KeySeqs(n)}
FewDocs == {Doc(FALSE, "", <<>>), Doc(TRUE, "", <<>>), Doc(TRUE, "demo", <<>>)}

\* the file systems in which every directory of dirs that holds a
\* configuration file holds the same one, drawn from docs
FileSystems(dirs, docs) ==
    {[d \in held |-> doc] : held \in SUBSET dirs, doc \in docs}

TypeOK ==
    /\ env.null \in BOOLEAN
    /\ pc \in [Loads -> {"off", "ready", "returned", "crashed"}]
    /\ image \in [Loads -> Loads]
    /\ count \in [Loads -> 0..MaxCalls]
    /\ \A i \in Loads : events[i] \in 0..MaxCalls /\ init[i].runs \in 0..MaxCalls

\* the runs of the init hook: how many, and of the last one the value
\* returned, the document CtlConfigExec ran with and what it answered
NoInit == [runs |-> 0, ret |-> 0, doc |-> NoConfig, exec |-> 0]
\* the request being served: at is where ctrlapi_ping stands ("store":
\* count++ has read, "notice": it has written, "reply": the notice is made),
\* tmp what count++ read and seen what the notice read
NoRun == [busy |-> FALSE, verb |-> "", tmp |-> 0, at |-> "", seen |-> 0]
\* the requests served: how many, how many of them pings, and of the last
\* one the verb and the calls its handler made
NoReqs == [n |-> 0, pings |-> 0, verb |-> "", calls |-> <<>>]

\* the state before any module load: only load 1 is to run
InitWith(envs, paths, roots, filesystems) ==
    /\ env \in envs
    /\ fs \in filesystems
    /\ image = [i \in Loads |-> i]
    /\ \E p \in paths : settings = [i \in Loads |-> IF i = 1 THEN p ELSE Null]
    /\ \E r \in roots : rootDir = [i \in Loads |-> r]
    /\ pc = [i \in Loads |-> IF i = 1 THEN "ready" ELSE "off"]
    /\ entry = [i \in Loads |-> NoEntry]
    /\ pre = [i \in Loads |-> NoPre]
    /\ api = [i \in Loads |-> NoHandle]
    /\ init = [i \in Loads |-> NoInit]
    /\ count = [m \in Loads |-> 0]
    /\ run = [i \in Loads |-> NoRun]
    /\ reqs = [i \in Loads |-> NoReqs]
    /\ events = [i \in Loads |-> 0]

\* few paths, no override, every document
Init ==
    InitWith({Null},
             {Ptr(<<"/", "a", "a">>), Ptr(<<"/", "a">>), Ptr(<<"a">>)},
             {DirR},
             FileSystems({DirR}, Docs(MaxSections)))

\* every path and override, few documents
InitPath ==
    InitWith({Null, Ptr(<<>>), Ptr(DirE), Ptr(DirE \o <<":">> \o DirR)},
             {Null} \cup {Ptr(p) : p \in Strings({"/", "a"}, MaxPathLen)},
             {DirR, DirE},
             FileSystems({DirE, DirR, CONTROL_CONFIG_PATH, <<"/", ".", ".">>}, FewDocs))

\* two binding-paths of one process, and the application roots they give
PathA == <<"/", "a", "/", "a", "a">>
PathB == <<"/", "b", "/", "a", "a">>
DirA == <<"/", "a", "/", ".", ".">>
DirB == <<"/", "b", "/", ".", ".">>

\* the module is loaded twice in one process, from two application
\* directories that each hold the configuration of an API of their own.  The
\* two binding-paths name one file (a link: the host maps one image, and the
\* two loads share its static counter) or two files (two images, a counter
\* each)
InitMulti ==
    /\ env = Null
    /\ \E ka \in KeySeqs(1), kb \in {<<>>, <<"onload">>} :
           fs = (DirA :> Doc(TRUE, "demo", ka)) @@ (DirB :> Doc(TRUE, "demo2", kb))
    /\ settings = [i \in Loads |-> IF i = 1 THEN Ptr(PathA) ELSE Ptr(PathB)]
    /\ image \in {[i \in Loads |-> 1], [i \in Loads |-> i]}
    /\ rootDir = [i \in Loads |-> DirR]
    /\ pc = [i \in Loads |-> "ready"]
    /\ entry = [i \in Loads |-> NoEntry]
    /\ pre = [i \in Loads |-> NoPre]
    /\ api = [i \in Loads |-> NoHandle]
    /\ init = [i \in Loads |-> NoInit]
    /\ count = [m \in Loads |-> 0]
    /\ run = [i \in Loads |-> NoRun]
    /\ reqs = [i \in Loads |-> NoReqs]
    /\ events = [i \in Loads |-> 0]

\* the handles CtrlInitOneApi may be given: none, one whose user context was
\* never set, and those a pre-init run leaves
HookHandles ==
    {NoHandle, NewHandle}
    \cup {CtrlLoadOneApi(d, NewHandle, [k \in 1..2 |-> 0], [k \in DocKeys |-> r]).h :
              d \in Docs(MaxSections) \ {Doc(FALSE, "", <<>>)}, r \in LoaderRcs}

\* CtrlInitOneApi on its own: api[1] is the handle it is to be called on
InitHook ==
    /\ env = Null
    /\ fs = <<>>
    /\ image = [i \in Loads |-> i]
    /\ settings = [i \in Loads |-> Null]
    /\ rootDir = [i \in Loads |-> DirR]
    /\ pc = [i \in Loads |-> "off"]
    /\ entry = [i \in Loads |-> NoEntry]
    /\ pre = [i \in Loads |-> NoPre]
    /\ \E h \in HookHandles : api = [i \in Loads |-> IF i = 1 THEN h ELSE NoHandle]
    /\ init = [i \in Loads |-> NoInit]
    /\ count = [m \in Loads |-> 0]
    /\ run = [i \in Loads |-> NoRun]
    /\ reqs = [i \in Loads |-> NoReqs]
    /\ events = [i \in Loads |-> 0]

----------------------------------------------------------------------------
(* The actions.                                                            *)

Alive == \A i \in Loads : pc[i] # "crashed"

\* the callbacks the host has made so far
Made ==
    LET n[S \in SUBSET Loads] ==
            IF S = {} THEN 0
            ELSE LET i == CHOOSE x \in S : TRUE
                 IN  init[i].runs + events[i] + reqs[i].n
                     + (IF run[i].busy THEN 1 ELSE 0) + n[S \ {i}]
    IN  n[Loads]

TableKeys == SeqToSet(ctrlSections) \ {""}

Oracle(u, refuse, keep, v, l) ==
    [undefined |-> u, refuse |-> refuse, keep |-> keep, verbRcs |-> v, loadRcs |-> l]

\* the answers the host and the loaders may give in a run of the entry
\* point, those that cannot matter fixed: the host refuses the API, or a
\* static verb fails, or the loaders of the sections held answer and the host
\* decides whether it keeps an API whose loaders reported errors
Oracles(bpath) ==
    LET held == UNION {SeqToSet(fs[d].keys) : d \in DOMAIN fs} \cap TableKeys
        zeroV == [k \in 1..2 |-> 0]
        zeroL == [k \in DocKeys |-> 0]
        answers == {[k \in DocKeys |-> IF k \in held THEN g[k] ELSE 0] :
                       g \in [held -> LoaderRcs]}
    IN  IF AppRootDir(bpath).kind = "undefined"
        THEN {Oracle(u, FALSE, FALSE, zeroV, zeroL) : u \in UndefinedOutcomes}
        ELSE IF DOMAIN fs = {}
        THEN {Oracle("return", FALSE, FALSE, zeroV, zeroL)}
        ELSE {Oracle("return", TRUE, FALSE, zeroV, zeroL)}
             \cup {Oracle("return", FALSE, FALSE, v, zeroL) :
                       v \in [1..2 -> AddVerbRcs] \ {zeroV}}
             \cup {Oracle("return", FALSE, FALSE, zeroV, l) : l \in answers}
             \cup {Oracle("return", FALSE, TRUE, zeroV, l) : l \in answers \ {zeroL}}

\* the host loads the module: afbBindingEntry runs to its end
AfbBindingEntry(i) ==
    /\ Alive
    /\ pc[i] = "ready"
    /\ \E o \in Oracles(settings[i]) :
          LET r == afbBindingEntry(settings[i], env, rootDir[i], fs, o)
          IN  /\ entry' = [entry EXCEPT ![i] = r.entry]
              /\ pre' = [pre EXCEPT ![i] = r.pre]
              /\ api' = [api EXCEPT ![i] = r.api]
              /\ pc' = [pc EXCEPT ![i] = IF r.entry.out = "crash" THEN "crashed"
                                          ELSE "returned"]
    /\ UNCHANGED <<env, fs, image, settings, rootDir, init, count, run, reqs, events>>

\* the host runs the init hook registered on the API
HostInit(i) ==
    /\ Alive
    /\ pc[i] = "returned"
    /\ ~api[i].null
    /\ api[i].onInit > 0
    /\ Made < MaxCalls
    /\ ~run[i].busy
    /\ \E rc \in ExecRcs :
          LET r == CtrlInitOneApi(api[i], rc)
          IN  init' = [init EXCEPT ![i] = [runs |-> @.runs + 1, ret |-> r.ret,
                                           doc |-> r.doc, exec |-> rc]]
    /\ UNCHANGED <<env, fs, image, settings, rootDir, pc, entry, pre, api, count, run,
                   reqs, events>>

\* the host delivers an event to the event hook registered on the API
HostEvent(i) ==
    /\ Alive
    /\ pc[i] = "returned"
    /\ ~api[i].null
    /\ api[i].onEvent > 0
    /\ Made < MaxCalls
    /\ events' = [events EXCEPT ![i] = @ + 1]
    /\ UNCHANGED <<env, fs, image, settings, rootDir, pc, entry, pre, api, init, count,
                   run, reqs>>

\* the API serves one request at a time (it is created with noconcurrency 1)
CanServe(i, verb) ==
    /\ Alive
    /\ pc[i] = "returned"
    /\ ~api[i].null
    /\ verb \in SeqToSet(api[i].verbs)
    /\ ~run[i].busy
    /\ Made < MaxCalls

\* ctrlapi_ping is called: count++ reads the counter of its image
PingLoad(i) ==
    /\ CanServe(i, "ping-global")
    /\ run' = [run EXCEPT ![i] = [busy |-> TRUE, verb |-> "ping-global",
                                  tmp |-> count[image[i]], at |-> "store",
                                  seen |-> 0]]
    /\ UNCHANGED <<env, fs, image, settings, rootDir, pc, entry, pre, api, init,
                   count, reqs, events>>

\* count++ writes the counter back.  The counter is a plain static int and
\* nothing locks it: handlers of other APIs may run between the steps
PingStore(i) ==
    /\ Alive
    /\ run[i].busy
    /\ run[i].at = "store"
    /\ count' = [count EXCEPT ![image[i]] = run[i].tmp + 1]
    /\ run' = [run EXCEPT ![i].at = "notice"]
    /\ UNCHANGED <<env, fs, image, settings, rootDir, pc, entry, pre, api, init,
                   reqs, events>>

\* line 54: the counter is read for the notice, and the notice made
PingNotice(i) ==
    /\ Alive
    /\ run[i].busy
    /\ run[i].at = "notice"
    /\ run' = [run EXCEPT ![i].at = "reply", ![i].seen = count[image[i]]]
    /\ UNCHANGED <<env, fs, image, settings, rootDir, pc, entry, pre, api, init,
                   count, reqs, events>>

\* line 55: the counter is read again for the reply, and the reply made
PingReply(i) ==
    /\ Alive
    /\ run[i].busy
    /\ run[i].at = "reply"
    /\ reqs' = [reqs EXCEPT ![i] = [n |-> @.n + 1, pings |-> @.pings + 1,
                                    verb |-> "ping-global",
                                    calls |-> ctrlapi_ping(run[i].seen,
                                                           count[image[i]])]]
    /\ run' = [run EXCEPT ![i] = NoRun]
    /\ UNCHANGED <<env, fs, image, settings, rootDir, pc, entry, pre, api, init,
                   count, events>>

\* ctrlapi_auth is called and returns
Auth(i) ==
    /\ CanServe(i, "auth")
    /\ reqs' = [reqs EXCEPT ![i] = [n |-> @.n + 1, pings |-> @.pings,
                                    verb |-> "auth", calls |-> ctrlapi_auth]]
    /\ UNCHANGED <<env, fs, image, settings, rootDir, pc, entry, pre, api, init, count,
                   run, events>>

Next ==
    \E i \in Loads :
        \/ AfbBindingEntry(i)
        \/ HostInit(i)
        \/ HostEvent(i)
        \/ PingLoad(i)
        \/ PingStore(i)
        \/ PingNotice(i)
        \/ PingReply(i)
        \/ Auth(i)

Spec == Init /\ [][Next]_vars

SpecPath == InitPath /\ [][Next]_vars

SpecMulti == InitMulti /\ [][Next]_vars

\* CtrlInitOneApi is called on api[1], whatever that handle is
CallInitOneApi ==
    /\ init[1].runs < MaxCalls
    /\ \E rc \in ExecRcs :
          LET r == CtrlInitOneApi(api[1], rc)
          IN  init' = [init EXCEPT ![1] = [runs |-> @.runs + 1, ret |-> r.ret,
                                           doc |-> r.doc, exec |-> rc]]
    /\ UNCHANGED <<env, fs, image, settings, rootDir, pc, entry, pre, api, count, run,
                   reqs, events>>

NextHook == CallInitOneApi

SpecHook == InitHook /\ [][NextHook]_vars

----------------------------------------------------------------------------
(* Reading the histories.                                                  *)

\* the calls of calls whose op is op, in order
CallsOf(calls, op) == LET Is(c) == c.op = op IN SelectSeq(calls, Is)

\* the sum of the answers to the calls of calls whose op is op
RcSum(calls, op) ==
    LET q == CallsOf(calls, op) IN SumSeq([k \in 1..Len(q) |-> q[k].rc])

\* the keys of the sections whose loader was called, in the order of the calls
Loaded(calls) ==
    LET q == CallsOf(calls, "load") IN [k \in 1..Len(q) |-> q[k].arg]

\* the position of the first call op of calls, 0 when there is none
FirstCall(calls, op) ==
    LET hits == {k \in 1..Len(calls) : calls[k].op = op}
    IN  IF hits = {} THEN 0 ELSE CHOOSE k \in hits : \A j \in hits : k <= j

\* the number of characters of s after its last '/'
CharsAfterLastSlash(s) ==
    CHOOSE n \in 0..Len(s) :
        /\ \A k \in (Len(s) - n + 1)..Len(s) : s[k] # "/"
        /\ n = Len(s) \/ s[Len(s) - n] = "/"

HasSlash(s) == \E k \in 1..Len(s) : s[k] = "/"

Ran == {i \in Loads : pre[i].ran}
Returned == {i \in Loads : pc[i] = "returned"}

----------------------------------------------------------------------------
(* C1.  As claimed: the value pre-init returns is the sum of the failures  *)
(* of the static verb registrations and of the dispatched section loaders. *)
C1_AsClaimed ==
    \A i \in Ran :
        pre[i].ret = RcSum(pre[i].h.calls, "add_verb") + RcSum(pre[i].h.calls, "load")

(* C1, amended.  When every static verb registration succeeded, the value  *)
(* pre-init returns is the sum of the answers of the dispatched section    *)
(* loaders; when the registrations' answers do not sum to 0, it is ERROR   *)
(* and no section loader was dispatched.                                   *)
C1_ReturnValue ==
    \A i \in Ran :
        IF RcSum(pre[i].h.calls, "add_verb") = 0
        THEN pre[i].ret = RcSum(pre[i].h.calls, "load")
        ELSE pre[i].ret = ERROR /\ Loaded(pre[i].h.calls) = <<>>

C1_Witness ==
    \E i \in Ran :
        /\ Len(Loaded(pre[i].h.calls)) = 2
        /\ \A k \in 1..2 : CallsOf(pre[i].h.calls, "load")[k].rc > 0
        /\ pre[i].ret >= 2

----------------------------------------------------------------------------
(* C2.  As claimed: every pre-init call that returned has sealed the API.  *)
C2_AsClaimed == \A i \in Ran : pre[i].h.sealed

(* C2, amended.  A pre-init call that returned has sealed the API, as its  *)
(* last call on it, exactly when the static verb registrations succeeded,  *)
(* whatever the section loaders answered; when they failed it returned     *)
(* ERROR and the API is not sealed.                                        *)
C2_Sealed ==
    \A i \in Ran :
        LET calls == pre[i].h.calls
        IN  IF RcSum(calls, "add_verb") = 0
            THEN /\ pre[i].h.sealed
                 /\ calls[Len(calls)].op = "seal"
                 /\ Len(CallsOf(calls, "seal")) = 1
            ELSE /\ ~pre[i].h.sealed
                 /\ CallsOf(calls, "seal") = <<>>
                 /\ pre[i].ret = ERROR

C2_Witness ==
    \E i \in Ran :
        /\ pre[i].ret > 0
        /\ RcSum(pre[i].h.calls, "load") > 0
        /\ pre[i].h.sealed

----------------------------------------------------------------------------
(* C3.  Whenever afbBindingEntry composed the search path, its             *)
(* directories are, in order and with duplicates kept: the directories of  *)
(* the override list, the application root, the runtime root, the          *)
(* fallback when the override is present; the runtime root, the            *)
(* application root, the fallback when it is absent.                       *)
C3_Order ==
    \A i \in Returned :
        ~entry[i].dirList.null =>
            LET appRoot == IF settings[i].null THEN <<>>
                           ELSE SubSeq(settings[i].s, 1,
                                    Len(settings[i].s)
                                    - CharsAfterLastSlash(settings[i].s))
                                \o <<".", ".">>
            IN  Split(entry[i].dirList.s, ":") =
                    IF ~env.null
                    THEN Split(env.s, ":") \o <<appRoot, rootDir[i]>>
                         \o Split(CONTROL_CONFIG_PATH, ":")
                    ELSE <<rootDir[i], appRoot>> \o Split(CONTROL_CONFIG_PATH, ":")

\* the override is present, the binding-path is well formed, and the runtime
\* root is also a directory of the override list: it is searched twice
C3_Witness ==
    \E i \in Returned :
        /\ ~entry[i].dirList.null
        /\ ~env.null
        /\ ~settings[i].null
        /\ LET dirs == Split(entry[i].dirList.s, ":")
           IN  /\ Len(dirs) = 5
               /\ dirs[2] = rootDir[i]
               /\ dirs[4] = rootDir[i]

----------------------------------------------------------------------------
(* C4.  As claimed: a binding-path with fewer than 3 characters after its  *)
(* last '/' makes afbBindingEntry return the path error, nothing composed, *)
(* searched or created; one with 3 or more does not.                       *)
PathError(i) ==
    /\ entry[i].ret # 0
    /\ entry[i].dirList.null
    /\ entry[i].configPath.null
    /\ entry[i].calls = <<>>
    /\ ~pre[i].ran
    /\ api[i].null

C4_AsClaimed ==
    \A i \in Returned :
        (~settings[i].null /\ HasSlash(settings[i].s)) =>
            IF CharsAfterLastSlash(settings[i].s) < 3
            THEN PathError(i)
            ELSE ~entry[i].dirList.null

(* C4, amended.  The threshold is 2 characters after the last '/' (3       *)
(* counting the '/' itself): with fewer, afbBindingEntry returns ERROR     *)
(* and nothing is composed, searched or created; with 2 or more the search *)
(* path is composed.                                                       *)
C4_PathError ==
    \A i \in Returned :
        (~settings[i].null /\ HasSlash(settings[i].s)) =>
            IF CharsAfterLastSlash(settings[i].s) < 2
            THEN PathError(i) /\ entry[i].ret = ERROR
            ELSE ~entry[i].dirList.null

C4_Witness ==
    \E i \in Returned :
        /\ ~settings[i].null
        /\ HasSlash(settings[i].s)
        /\ CharsAfterLastSlash(settings[i].s) = 1
        /\ Len(settings[i].s) > 2
        /\ PathError(i)

----------------------------------------------------------------------------
(* C5.  A run of afbBindingEntry asks the host for an API at most once,    *)
(* and only after the search found a file, the file was loaded and carries *)
(* an api name; when the search finds no file, the load fails or the api   *)
(* name is absent, the entry returns non-zero, the host is never asked for *)
(* an API and the pre-init callback never runs.                            *)
C5_CreationRequest ==
    \A i \in Returned :
        LET calls == entry[i].calls
            asked == CallsOf(calls, "new_api")
        IN  /\ Len(asked) <= 1
            /\ pre[i].ran => Len(asked) = 1
            /\ asked # <<>> =>
                  /\ ~entry[i].configPath.null
                  /\ entry[i].configPath.s \in DOMAIN fs
                  /\ fs[entry[i].configPath.s].ok
                  /\ fs[entry[i].configPath.s].api # ""
                  /\ asked[1].arg = fs[entry[i].configPath.s].api
                  /\ 0 < FirstCall(calls, "search")
                  /\ FirstCall(calls, "search") < FirstCall(calls, "load_meta")
                  /\ FirstCall(calls, "load_meta") < FirstCall(calls, "new_api")
            /\ (\/ entry[i].configPath.null
                \/ entry[i].cfg.null
                \/ entry[i].cfg.api = "") =>
                  /\ entry[i].ret # 0
                  /\ asked = <<>>
                  /\ ~pre[i].ran

\* a file was found and loaded, and carries no api name
C5_Witness ==
    \E i \in Returned :
        /\ ~entry[i].configPath.null
        /\ ~entry[i].cfg.null
        /\ entry[i].cfg.api = ""
        /\ entry[i].ret = ERROR
        /\ CallsOf(entry[i].calls, "new_api") = <<>>

----------------------------------------------------------------------------
(* C6.  Whenever afbBindingEntry has returned non-zero, the host keeps no  *)
(* API of this module: no API object, assembled or half assembled, exists, *)
(* and no verb of it is or was served.                                     *)
C6_NoApiOnFailure ==
    \A i \in Returned :
        entry[i].ret # 0 =>
            /\ api[i].null
            /\ ~run[i].busy
            /\ reqs[i].n = 0
            /\ init[i].runs = 0
            /\ events[i] = 0

\* the entry failed after pre-init had attached verbs to the API
C6_Witness ==
    \E i \in Returned :
        /\ entry[i].ret # 0
        /\ pre[i].ran
        /\ pre[i].h.verbs # <<>>
        /\ api[i].null

----------------------------------------------------------------------------
(* C7.  A sealed API receives no verb, event-hook or init-hook             *)
(* registration: no call of pre-init registers after the seal, and once    *)
(* the API the host keeps is sealed no callback (init hook, event hook,    *)
(* verb handler) changes its verbs or hooks or calls it again.             *)
IsRegistration(c) == c.op \in {"add_verb", "on_event", "on_init"}

NoneAfterSeal(calls) ==
    \A a, b \in 1..Len(calls) :
        (calls[a].op = "seal" /\ a < b) => ~IsRegistration(calls[b])

C7_Frozen ==
    /\ [](\A i \in Loads :
            /\ pre[i].h.late = 0
            /\ api[i].late = 0
            /\ NoneAfterSeal(pre[i].h.calls)
            /\ NoneAfterSeal(api[i].calls))
    /\ [][\A i \in Loads : api[i].sealed => api'[i] = api[i]]_vars

\* a sealed API on which the init hook ran and a verb was served
C7_Witness ==
    \E i \in Loads :
        /\ api[i].sealed
        /\ init[i].runs > 0
        /\ reqs[i].n > 0

----------------------------------------------------------------------------
(* C8.  The section loaders called by pre-init are called in the order     *)
(* plugins, controls, events, onload, each at most once, whatever the      *)
(* order of the sections in the document; when the static verbs were       *)
(* registered, the loader of every one of these sections the document      *)
(* carries is called.                                                      *)
TableOrder == <<"plugins", "controls", "events", "onload">>
Rank(key) == CHOOSE k \in 1..Len(TableOrder) : TableOrder[k] = key

C8_TableOrder ==
    \A i \in Ran :
        LET keys == Loaded(pre[i].h.calls)
        IN  /\ \A a, b \in 1..Len(keys) :
                  /\ keys[a] \in SeqToSet(TableOrder)
                  /\ a < b => Rank(keys[a]) < Rank(keys[b])
            /\ RcSum(pre[i].h.calls, "add_verb") = 0 =>
                  SeqToSet(keys) =
                      SeqToSet(pre[i].h.userdata.keys) \cap SeqToSet(TableOrder)

\* the document carries controls before plugins, and the plugins loader was
\* called before the controls loader
C8_Witness ==
    \E i \in Ran :
        /\ pre[i].h.userdata.keys = <<"controls", "plugins">>
        /\ Loaded(pre[i].h.calls) = <<"plugins", "controls">>

----------------------------------------------------------------------------
(* C9.  A section whose key is none of plugins, controls, events, onload   *)
(* has no loader called and adds nothing to the value pre-init returns,    *)
(* which is the sum of the answers of the loaders of the other sections of *)
(* the document; these are still dispatched.                               *)
C9_UnknownSkipped ==
    \A i \in Ran :
        LET calls == pre[i].h.calls
            known == SeqToSet(pre[i].h.userdata.keys) \cap SeqToSet(TableOrder)
        IN  /\ \A k \in 1..Len(calls) :
                  calls[k].op = "load" => calls[k].arg \in known
            /\ RcSum(calls, "add_verb") = 0 =>
                  /\ Len(CallsOf(calls, "load")) = Cardinality(known)
                  /\ pre[i].ret = RcSum(calls, "load")
                  /\ known = {} => pre[i].ret = 0

\* the document carries foo before controls; only the controls loader ran
C9_Witness ==
    \E i \in Ran :
        /\ pre[i].h.userdata.keys = <<"foo", "controls">>
        /\ Loaded(pre[i].h.calls) = <<"controls">>
        /\ pre[i].ret = 0
        /\ pre[i].h.sealed

----------------------------------------------------------------------------
(* C10.  Every request a built-in verb handler (ping-global, auth) has     *)
(* served got exactly one reply, a success or a failure, and the reply is  *)
(* the handler's last call on the request.                                 *)
C10_OneReply ==
    \A i \in Loads :
        reqs[i].n > 0 =>
            /\ reqs[i].verb \in {"ping-global", "auth"}
            /\ Replies(reqs[i].calls) = 1
            /\ IsReply(reqs[i].calls[Len(reqs[i].calls)])

\* the second of two requests was a ping and has been served
C10_Witness ==
    \E i \in Loads :
        /\ reqs[i].n = 2
        /\ reqs[i].verb = "ping-global"
        /\ Replies(reqs[i].calls) = 1
        /\ count[image[i]] > 0

----------------------------------------------------------------------------
(* C11.  The search of line 209 yields a file exactly when one of the      *)
(* directories of the search path holds a match, and the file is the one   *)
(* of the earliest such directory, whether one directory holds a match or  *)
(* several do.  When none does, afbBindingEntry returns ERROR, no API is   *)
(* requested, and the one error reported carries the search path.          *)

\* the directories of the search path afbBindingEntry composed, in order
SearchedDirs(i) == Split(entry[i].dirList.s, ":")

\* the positions of SearchedDirs(i) whose directory holds a matching file
Holders(i) == {k \in 1..Len(SearchedDirs(i)) : SearchedDirs(i)[k] \in DOMAIN fs}

C11_Search ==
    \A i \in Returned :
        ~entry[i].dirList.null =>
            /\ entry[i].configPath.null <=> Holders(i) = {}
            /\ Holders(i) # {} =>
                   \E k \in Holders(i) :
                       /\ \A j \in Holders(i) : k <= j
                       /\ entry[i].configPath.s = SearchedDirs(i)[k]
            /\ Holders(i) = {} =>
                   /\ entry[i].ret = ERROR
                   /\ CallsOf(entry[i].calls, "log") = <<Call("log", "dirList", 0)>>
                   /\ CallsOf(entry[i].calls, "new_api") = <<>>
                   /\ ~pre[i].ran
                   /\ api[i].null

\* several directories hold a match, the first searched does not, and the
\* file returned is the one of the earliest holder
C11_Witness ==
    \E i \in Returned :
        /\ ~entry[i].dirList.null
        /\ Cardinality(Holders(i)) >= 2
        /\ 1 \notin Holders(i)
        /\ \E k \in Holders(i) : entry[i].configPath.s = SearchedDirs(i)[k]

\* one directory holds a match and it is the last one searched
C11_WitnessOne ==
    \E i \in Returned :
        /\ ~entry[i].dirList.null
        /\ Len(SearchedDirs(i)) >= 4
        /\ Holders(i) = {Len(SearchedDirs(i))}
        /\ entry[i].configPath.s = CONTROL_CONFIG_PATH

\* no directory holds a match
C11_WitnessNone ==
    \E i \in Returned :
        /\ ~entry[i].dirList.null
        /\ Holders(i) = {}
        /\ entry[i].ret = ERROR

----------------------------------------------------------------------------
(* C12.  Every run of afbBindingEntry that allocated the search path has   *)
(* freed it exactly once, as the last thing before it returned, on each of *)
(* the five ways out (no file found, file not loadable, no api name, API   *)
(* creation failed, success); the search and the log that read the search  *)
(* path come before the free.  A run that allocated nothing frees nothing. *)

\* the way afbBindingEntry went out, the search path allocated
WayOut(i) ==
    IF entry[i].configPath.null THEN "not-found"
    ELSE IF entry[i].cfg.null THEN "load-failure"
    ELSE IF entry[i].cfg.api = "" THEN "no-api-name"
    ELSE IF entry[i].ret # 0 THEN "creation-failure"
    ELSE "success"

C12_Released ==
    \A i \in Returned :
        LET calls == entry[i].calls
        IN  /\ Len(CallsOf(calls, "malloc")) = (IF entry[i].dirList.null THEN 0 ELSE 1)
            /\ Len(CallsOf(calls, "free")) = Len(CallsOf(calls, "malloc"))
            /\ ~entry[i].dirList.null =>
                   /\ FirstCall(calls, "malloc") = 1
                   /\ calls[Len(calls)].op = "free"
                   /\ \A k \in 1..Len(calls) :
                          calls[k].arg = "dirList" => k < FirstCall(calls, "free")

\* the host refused the API: the failure is logged, the search path freed
C12_Witness ==
    \E i \in Returned :
        /\ ~entry[i].dirList.null
        /\ WayOut(i) = "creation-failure"
        /\ FirstCall(entry[i].calls, "new_api") > 0
        /\ Len(CallsOf(entry[i].calls, "free")) = 1

\* each of the five ways out is taken
C12_WitnessNotFound ==
    \E i \in Returned : ~entry[i].dirList.null /\ WayOut(i) = "not-found"
C12_WitnessLoadFailure ==
    \E i \in Returned : ~entry[i].dirList.null /\ WayOut(i) = "load-failure"
C12_WitnessNoApiName ==
    \E i \in Returned : ~entry[i].dirList.null /\ WayOut(i) = "no-api-name"
C12_WitnessSuccess ==
    \E i \in Returned : ~entry[i].dirList.null /\ WayOut(i) = "success"

----------------------------------------------------------------------------
(* C13.  An API handle carries one document: pre-init sets the user        *)
(* context once, to the document its creation was given, and nothing sets  *)
(* it again; a run of the init hook executes the configuration with the    *)
(* document of the handle it was called on.  With two instances configured *)
(* apart and their callbacks interleaved, each uses its own document.      *)

C13_State ==
    \A i \in Loads :
        /\ pre[i].ran =>
               /\ Len(CallsOf(pre[i].h.calls, "set_userdata")) = 1
               /\ FirstCall(pre[i].h.calls, "set_userdata") = 1
               /\ pre[i].h.userdata = entry[i].cfg
               /\ ~entry[i].cfg.null
        /\ ~api[i].null => api[i].userdata = entry[i].cfg
        /\ init[i].runs > 0 => init[i].doc = entry[i].cfg

C13_OwnDocument ==
    /\ []C13_State
    /\ [][\A i \in Loads : ~api[i].null => api'[i].userdata = api[i].userdata]_vars

\* both instances are initialized, each with the document of its own
\* directory, and the two documents differ
C13_Witness ==
    /\ \A i \in Loads : init[i].runs > 0 /\ ~init[i].doc.null
    /\ init[1].doc = fs[DirA]
    /\ init[2].doc = fs[DirB]
    /\ init[1].doc # init[2].doc

----------------------------------------------------------------------------
(* C14.  An API only moves forward through created, assembling, sealed,    *)
(* initialized.  In a pre-init run the user context is set first, the seal *)
(* is the last call, and a run that registered the init hook has sealed;   *)
(* so the init hook only ever runs on a sealed handle, and no callback     *)
(* takes an API back to an earlier phase.                                  *)

\* how far the API the host keeps for load i has come: 0 none, 1 assembling
\* (open), 2 sealed, 3 initialized
Phase(i) ==
    IF api[i].null THEN 0
    ELSE IF ~api[i].sealed THEN 1
    ELSE IF init[i].runs = 0 THEN 2
    ELSE 3

C14_State ==
    \A i \in Loads :
        /\ pre[i].ran =>
               LET calls == pre[i].h.calls
               IN  /\ calls[1].op = "set_userdata"
                   /\ FirstCall(calls, "on_init") > 0 =>
                          /\ pre[i].h.sealed
                          /\ calls[Len(calls)].op = "seal"
                          /\ Len(CallsOf(calls, "seal")) = 1
                          /\ FirstCall(calls, "on_init") < FirstCall(calls, "seal")
                   /\ FirstCall(calls, "on_init") = 0 =>
                          /\ ~pre[i].h.sealed
                          /\ api[i].null
        /\ init[i].runs > 0 => ~api[i].null /\ api[i].sealed /\ api[i].onInit = 1

C14_Forward ==
    /\ []C14_State
    /\ [][\A i \in Loads : Phase(i)' >= Phase(i)]_vars

\* the init hook has run on an API the host kept although the section
\* loaders reported errors: the API is sealed
C14_Witness ==
    \E i \in Loads :
        /\ pre[i].ran
        /\ pre[i].ret > 0
        /\ init[i].runs > 0
        /\ Phase(i) = 3

----------------------------------------------------------------------------
(* C15.  When pre-init returns 0 the API has the two built-in verbs        *)
(* ping-global and auth, both registered before the first section loader   *)
(* was called, the event hook and the init hook are each registered        *)
(* exactly once, and the API is sealed; the host keeps that API.           *)

C15_Complete ==
    \A i \in Ran :
        pre[i].ret = 0 =>
            LET h == pre[i].h
                verbCalls == {k \in 1..Len(h.calls) : h.calls[k].op = "add_verb"}
                loadCalls == {k \in 1..Len(h.calls) : h.calls[k].op = "load"}
            IN  /\ h.verbs = <<"ping-global", "auth">>
                /\ Cardinality(verbCalls) = 2
                /\ \A v \in verbCalls : \A l \in loadCalls : v < l
                /\ Len(CallsOf(h.calls, "on_event")) = 1
                /\ h.onEvent = 1
                /\ Len(CallsOf(h.calls, "on_init")) = 1
                /\ h.onInit = 1
                /\ h.sealed
                /\ h.late = 0
                /\ api[i] = h

\* pre-init returned 0 after two section loaders were called
C15_Witness ==
    \E i \in Ran :
        /\ pre[i].ret = 0
        /\ Len(Loaded(pre[i].h.calls)) >= 2
        /\ pre[i].h.verbs = <<"ping-global", "auth">>
        /\ pre[i].h.sealed

----------------------------------------------------------------------------
(* C16.  As claimed: when a static verb registration or a section loader   *)
(* fails during pre-init, the loader of every section present is still     *)
(* called exactly once and the event and init hooks are still registered.  *)

\* the loader of every table section the document of load i holds was
\* called exactly once, and no other loader was
AllLoadedOnce(i) ==
    \A k \in DocKeys :
        Cardinality({n \in 1..Len(pre[i].h.calls) :
                        /\ pre[i].h.calls[n].op = "load"
                        /\ pre[i].h.calls[n].arg = k})
            = (IF k \in TableKeys /\ HasKey(entry[i].cfg, k) THEN 1 ELSE 0)

HooksRegistered(i) ==
    /\ pre[i].h.onEvent = 1
    /\ pre[i].h.onInit = 1
    /\ Len(CallsOf(pre[i].h.calls, "on_event")) = 1
    /\ Len(CallsOf(pre[i].h.calls, "on_init")) = 1

\* a static verb registration of load i failed
VerbFailed(i) == \E n \in 1..Len(pre[i].h.calls) :
                     pre[i].h.calls[n].op = "add_verb" /\ pre[i].h.calls[n].rc # 0

\* a section loader of load i failed
LoaderFailed(i) == \E n \in 1..Len(pre[i].h.calls) :
                       pre[i].h.calls[n].op = "load" /\ pre[i].h.calls[n].rc # 0

\* the verbs whose registration succeeded are the verbs of the handle
NoRollback(i) ==
    LET ok(c) == c.op = "add_verb" /\ c.rc = 0
        q == SelectSeq(pre[i].h.calls, ok)
    IN  pre[i].h.verbs = [n \in 1..Len(q) |-> q[n].arg]

C16_AsClaimed ==
    \A i \in Ran :
        (VerbFailed(i) \/ LoaderFailed(i)) =>
            /\ AllLoadedOnce(i)
            /\ HooksRegistered(i)
            /\ NoRollback(i)

(* C16.  A failing section loader is not fatal: the loader of every        *)
(* section present is still called exactly once, the hooks are registered  *)
(* and the API sealed, and pre-init returns the error sum.  A failing      *)
(* static verb registration ends pre-init at once with ERROR: no loader is *)
(* called and no hook registered.  In both cases what was registered       *)
(* before the failure stays registered.                                    *)
C16_NonFatal ==
    \A i \in Ran :
        /\ NoRollback(i)
        /\ (LoaderFailed(i) /\ ~VerbFailed(i)) =>
               /\ AllLoadedOnce(i)
               /\ HooksRegistered(i)
               /\ pre[i].h.sealed
               /\ pre[i].ret = RcSum(pre[i].h.calls, "load")
               /\ pre[i].ret # 0
        /\ VerbFailed(i) =>
               /\ pre[i].ret = ERROR
               /\ Loaded(pre[i].h.calls) = <<>>
               /\ pre[i].h.onEvent = 0
               /\ pre[i].h.onInit = 0
               /\ ~pre[i].h.sealed

\* the first of two section loaders failed, the second was still called
C16_Witness ==
    \E i \in Ran :
        /\ ~VerbFailed(i)
        /\ Len(Loaded(pre[i].h.calls)) >= 2
        /\ CallsOf(pre[i].h.calls, "load")[1].rc # 0
        /\ AllLoadedOnce(i)
        /\ HooksRegistered(i)

\* the second static verb failed, the first stays registered
C16_WitnessVerb ==
    \E i \in Ran :
        /\ VerbFailed(i)
        /\ pre[i].h.verbs = <<"ping-global">>
        /\ pre[i].ret = ERROR

----------------------------------------------------------------------------
(* C17.  A further call of the init hook on a handle executes the          *)
(* configuration with the same document as the call before, the one in    *)
(* the handle's user context, and leaves the handle, its user context      *)
(* included, as it was: the onload section given to CtlConfigExec is the   *)
(* same each time.                                                         *)

\* the onload actions CtlConfigExec is given with document doc
OnloadSet(doc) == IF HasKey(doc, "onload") THEN {<<doc.api, "onload">>} ELSE {}

C17_Again ==
    [][\A i \in Loads :
          init'[i].runs > init[i].runs =>
              /\ api'[i] = api[i]
              /\ init'[i].doc = api[i].userdata
              /\ init[i].runs > 0 =>
                     /\ init'[i].doc = init[i].doc
                     /\ OnloadSet(init'[i].doc) = OnloadSet(init[i].doc)]_vars

\* the init hook has run twice on an API whose document has an onload section
C17_Witness ==
    \E i \in Loads :
        /\ init[i].runs >= 2
        /\ HasKey(init[i].doc, "onload")
        /\ init[i].doc = api[i].userdata

----------------------------------------------------------------------------
(* C18.  As claimed, read for the APIs that share a counter (those of one  *)
(* image): whatever the interleaving of the ping-global calls, calls on    *)
(* different APIs running at once included, the replies carry distinct     *)
(* counts without gaps, 1..n for n calls: a reply never exceeds the number *)
(* of calls started, two APIs never got the same count, and once every     *)
(* call has returned the counter equals the number of calls.               *)

\* the loads that run in image m
LoadsOf(m) == {i \in Loads : image[i] = m}

\* the ping-global calls served so far by the APIs of image m
PingsServed(m) ==
    SumSeq([i \in 1..Cardinality(Loads) |->
               IF image[i] = m THEN reqs[i].pings ELSE 0])

\* the count carried by the reply of the last request of API i, a ping
LastCount(i) == CallsOf(reqs[i].calls, "success")[1].rc

C18_AsClaimed ==
    /\ \A i \in Loads :
           reqs[i].verb = "ping-global" => LastCount(i) \in 1..MaxCalls
    /\ \A i, j \in Loads :
           (/\ i # j
            /\ image[i] = image[j]
            /\ reqs[i].verb = "ping-global"
            /\ reqs[j].verb = "ping-global")
               => LastCount(i) # LastCount(j)
    /\ \A m \in Loads :
           (\A i \in LoadsOf(m) : ~run[i].busy) => count[m] = PingsServed(m)

\* two ping-global calls on two APIs of one image got the same count, and
\* the counter has lost one of them
C18_Witness ==
    /\ image[1] = image[2]
    /\ \A i \in Loads : reqs[i].pings = 1 /\ reqs[i].verb = "ping-global"
    /\ LastCount(1) = LastCount(2)
    /\ count[image[1]] = 1

\* a call on one API ran whole between the notice and the reply of a call
\* on another API of the image: the notice says 1, both replies say 2
C18_WitnessStale ==
    /\ image[1] = image[2]
    /\ \E i \in Loads :
           /\ reqs[i].verb = "ping-global"
           /\ CallsOf(reqs[i].calls, "notice")[1].rc = 1
           /\ LastCount(i) = 2
    /\ \A i \in Loads : reqs[i].verb = "ping-global" => LastCount(i) = 2

\* the two loads run in two images: each API counts its own calls
C18_WitnessTwoImages ==
    /\ image[1] # image[2]
    /\ \A i \in Loads : reqs[i].pings = 1 /\ reqs[i].verb = "ping-global"
    /\ LastCount(1) = 1
    /\ LastCount(2) = 1
    /\ count = [m \in Loads |-> 1]

----------------------------------------------------------------------------
(* C19.  CtrlInitOneApi returns -1 when it is given no handle and -2 when  *)
(* the handle has no document, and in both cases executes no               *)
(* configuration; otherwise it executes the configuration with the         *)
(* document of the handle and returns exactly what that execution answers. *)

C19_Returns ==
    \A i \in Loads :
        init[i].runs > 0 =>
            /\ api[i].null => init[i].ret = -1 /\ init[i].doc.null
            /\ (~api[i].null /\ api[i].userdata.null) =>
                   init[i].ret = -2 /\ init[i].doc.null
            /\ (~api[i].null /\ ~api[i].userdata.null) =>
                   /\ init[i].ret = init[i].exec
                   /\ init[i].doc = api[i].userdata

\* the hook was called without a handle
C19_Witness ==
    /\ init[1].runs > 0
    /\ api[1].null
    /\ init[1].ret = -1

\* the hook was called on a handle without a document
C19_WitnessNoDocument ==
    /\ init[1].runs > 0
    /\ ~api[1].null
    /\ api[1].userdata.null
    /\ init[1].ret = -2

\* the hook was called on a handle with a document and the execution failed
C19_WitnessExecuted ==
    /\ init[1].runs > 0
    /\ ~api[1].userdata.null
    /\ init[1].ret = ERROR
    /\ init[1].exec = ERROR

----------------------------------------------------------------------------
(* C20.  The buffer of the search path is exactly large enough, with the   *)
(* override list present or absent and whatever the lengths of the parts,  *)
(* an empty application root included: len is the sum of the lengths of    *)
(* the parts and of the separators between them, the string composed has   *)
(* exactly len characters, so with its terminator it fills the len + 1     *)
(* bytes allocated and no more, and nothing of it is cut off.              *)

\* the length of the application root afbBindingEntry derives for load i
AppRootLen(i) ==
    IF settings[i].null THEN 0
    ELSE Len(settings[i].s) - CharsAfterLastSlash(settings[i].s) + 2

\* the number of separators ':' in s
Colons(s) == Cardinality({k \in 1..Len(s) : s[k] = ":"})

C20_Fits ==
    \A i \in Returned :
        ~entry[i].dirList.null =>
            LET s == entry[i].dirList.s
                parts == Len(rootDir[i]) + AppRootLen(i) + Len(CONTROL_CONFIG_PATH)
                         + (IF env.null THEN 0 ELSE Len(env.s))
                seps == IF env.null THEN 2 ELSE 3
                tail == Len(CONTROL_CONFIG_PATH)
            IN  /\ entry[i].len = parts + seps
                /\ Len(s) = entry[i].len
                /\ Len(s) + 1 <= entry[i].len + 1
                /\ SubSeq(s, Len(s) - tail + 1, Len(s)) = CONTROL_CONFIG_PATH
                /\ s[Len(s) - tail] = ":"
                /\ Colons(s) = seps + (IF env.null THEN 0 ELSE Colons(env.s))
                                    + Colons(CONTROL_CONFIG_PATH)

\* the override list is present and the application root is empty
C20_Witness ==
    \E i \in Returned :
        /\ ~entry[i].dirList.null
        /\ ~env.null
        /\ Len(env.s) > 0
        /\ settings[i].null
        /\ entry[i].len = Len(env.s) + Len(rootDir[i]) + Len(CONTROL_CONFIG_PATH) + 3
        /\ Len(entry[i].dirList.s) = entry[i].len

\* the override list is absent and the application root is not empty
C20_WitnessAbsent ==
    \E i \in Returned :
        /\ ~entry[i].dirList.null
        /\ env.null
        /\ AppRootLen(i) > 0
        /\ Len(entry[i].dirList.s) = entry[i].len
====
